---- MODULE Spec2Model ----
(***************************************************************************)
(* Model of the Telegram export analysis pipeline:                         *)
(*   src/src/telegram_analysis.py  process_json, get_word_frequency        *)
(*   src/src/app.py                run_app                                 *)
(*   src/src/utils.py              load_stopwords, extract_emojis          *)
(*                                                                         *)
(* Strings are sequences of Unicode code points, so that lower(), strip(), *)
(* split() and the regular expression of get_word_frequency are computed   *)
(* character by character as Python computes them.                         *)
(***************************************************************************)
EXTENDS Integers, Sequences, FiniteSets, TLC

(***************************************************************************)
(* Bounds of the model.                                                    *)
(***************************************************************************)
\* longest message list of an uploaded document
MaxMsgs == 2
\* longest message list of a document whose messages differ in their dates
MaxDateMsgs == 3
\* longest message list of a document whose messages differ in their media
MaxTypeMsgs == 1
\* longest corpus, in words, handed to get_word_frequency on its own
MaxWords == 3
\* largest top_n handed to get_word_frequency on its own
MaxTopN == 3
\* most calls of load_stopwords one process makes
MaxCalls == 3

(***************************************************************************)
(* Strings of the inputs, as code points.                                  *)
(***************************************************************************)
\* "unknown", "Unknown", "UNKNOWN", "Alice", "Bob"
S_unknown == <<117, 110, 107, 110, 111, 119, 110>>
S_Unknown == <<85, 110, 107, 110, 111, 119, 110>>
S_UNKNOWN == <<85, 78, 75, 78, 79, 87, 78>>
S_Alice == <<65, 108, 105, 99, 101>>
S_Bob == <<66, 111, 98>>

(***************************************************************************)
(* Python values.  None, strings, numbers, lists and dicts are tagged so   *)
(* that isinstance() and truthiness are decided as Python decides them.    *)
(***************************************************************************)
None == [tag |-> "None"]
Str(s) == [tag |-> "str", v |-> s]
Num(n) == [tag |-> "num", v |-> n]
List(items) == [tag |-> "list", v |-> items]
SetOf(S) == [tag |-> "set", v |-> S]
\* a pandas DataFrame, as the sequence of its rows
Frame(rs) == [tag |-> "frame", v |-> rs]
\* a text fragment object {"type": ..., "text": ...}; keys is the set of its keys
Frag(keys, t) == [tag |-> "dict", keys |-> keys, text |-> t]

\* bool(x) of a Python value
Truthy(x) ==
    CASE x.tag = "None" -> FALSE
      [] x.tag = "str" -> x.v # <<>>
      [] x.tag = "num" -> x.v # 0
      [] x.tag = "list" -> x.v # <<>>
      [] OTHER -> TRUE

\* dict.get(key) with the default None: a message is a record of values plus
\* the set `keys` of the keys the JSON object really has
Get(msg, key) == IF key \in msg.keys THEN msg[key] ELSE None

(***************************************************************************)
(* str methods.                                                            *)
(***************************************************************************)
\* str.isspace() of one character (also the \s of a str pattern)
IsSpace(ch) ==
    \/ ch \in 9..13
    \/ ch \in 28..32
    \/ ch \in {133, 160, 5760, 8232, 8233, 8239, 8287, 12288}
    \/ ch \in 8192..8202

\* str.lower() of one character
LowerChar(ch) ==
    IF ch \in 65..90 THEN ch + 32
    ELSE IF ch \in 192..222 /\ ch # 215 THEN ch + 32
    ELSE IF ch \in 1040..1071 THEN ch + 32
    ELSE IF ch \in 1024..1039 THEN ch + 80
    ELSE IF ch = 8490 THEN 107
    ELSE ch

\* str.lower()
Lower(s) == [k \in 1..Len(s) |-> LowerChar(s[k])]

RECURSIVE LStrip(_)
LStrip(s) == IF s # <<>> /\ IsSpace(Head(s)) THEN LStrip(Tail(s)) ELSE s

RECURSIVE RStrip(_)
RStrip(s) ==
    IF s # <<>> /\ IsSpace(s[Len(s)]) THEN RStrip(SubSeq(s, 1, Len(s) - 1)) ELSE s

\* str.strip()
Strip(s) == RStrip(LStrip(s))

RECURSIVE SplitFrom(_, _)
\* the words of s after the pending word cur
SplitFrom(s, cur) ==
    IF s = <<>> THEN (IF cur = <<>> THEN <<>> ELSE <<cur>>)
    ELSE IF IsSpace(Head(s))
         THEN (IF cur = <<>> THEN <<>> ELSE <<cur>>) \o SplitFrom(Tail(s), <<>>)
         ELSE SplitFrom(Tail(s), Append(cur, Head(s)))

\* str.split() without arguments: runs of whitespace separate, no empty words
Split(s) == SplitFrom(s, <<>>)

RECURSIVE Join(_, _)
\* sep.join(parts)
Join(sep, parts) ==
    IF parts = <<>> THEN <<>>
    ELSE IF Len(parts) = 1 THEN parts[1]
    ELSE parts[1] \o sep \o Join(sep, Tail(parts))

(***************************************************************************)
(* datetime.fromisoformat, datetime.date and the calendar.                 *)
(***************************************************************************)
IsDigit(ch) == ch \in 48..57

\* the number written by the two digits of s at p, p + 1
Int2(s, p) == (s[p] - 48) * 10 + (s[p + 1] - 48)

\* the number written by the four digits of s at p .. p + 3
Int4(s, p) == Int2(s, p) * 100 + Int2(s, p + 2)

IsLeap(y) == (y % 4 = 0) /\ ((y % 100 # 0) \/ (y % 400 = 0))

DaysInMonth(y, m) ==
    IF m = 2 THEN (IF IsLeap(y) THEN 29 ELSE 28)
    ELSE IF m \in {4, 6, 9, 11} THEN 30
    ELSE 31

\* the shape "YYYY-MM-DD" then, optionally, a separator and "HH", ":MM", ":SS"
IsoShape(s) ==
    /\ Len(s) \in {10, 13, 16, 19}
    /\ \A p \in {1, 2, 3, 4, 6, 7, 9, 10} : IsDigit(s[p])
    /\ s[5] = 45 /\ s[8] = 45
    /\ Len(s) >= 13 => IsDigit(s[12]) /\ IsDigit(s[13])
    /\ Len(s) >= 16 => s[14] = 58 /\ IsDigit(s[15]) /\ IsDigit(s[16])
    /\ Len(s) >= 19 => s[17] = 58 /\ IsDigit(s[18]) /\ IsDigit(s[19])

\* the fields of a string of that shape are a date and a time of day
IsoInRange(s) ==
    /\ Int4(s, 1) >= 1
    /\ Int2(s, 6) \in 1..12
    /\ Int2(s, 9) \in 1..DaysInMonth(Int4(s, 1), Int2(s, 6))
    /\ Len(s) >= 13 => Int2(s, 12) \in 0..23
    /\ Len(s) >= 16 => Int2(s, 15) \in 0..59
    /\ Len(s) >= 19 => Int2(s, 18) \in 0..59

\* datetime.fromisoformat(x): the datetime, or the exception it raises
\* (TypeError for a value that is no str, ValueError for a bad string)
fromisoformat(x) ==
    IF x.tag # "str" THEN [ok |-> FALSE, error |-> "TypeError"]
    ELSE IF ~(IsoShape(x.v) /\ IsoInRange(x.v)) THEN [ok |-> FALSE, error |-> "ValueError"]
    ELSE [ok |-> TRUE,
          year |-> Int4(x.v, 1), month |-> Int2(x.v, 6), day |-> Int2(x.v, 9),
          hour |-> IF Len(x.v) >= 13 THEN Int2(x.v, 12) ELSE 0]

\* dt.date()
DateOf(dt) == [year |-> dt.year, month |-> dt.month, day |-> dt.day]

\* date1 < date2
DateLT(d1, d2) ==
    \/ d1.year < d2.year
    \/ d1.year = d2.year /\ d1.month < d2.month
    \/ d1.year = d2.year /\ d1.month = d2.month /\ d1.day < d2.day

DateLE(d1, d2) == d1 = d2 \/ DateLT(d1, d2)

\* the calendar day after d
NextDay(d) ==
    IF d.day < DaysInMonth(d.year, d.month) THEN [d EXCEPT !.day = d.day + 1]
    ELSE IF d.month < 12 THEN [d EXCEPT !.month = d.month + 1, !.day = 1]
    ELSE [year |-> d.year + 1, month |-> 1, day |-> 1]

(***************************************************************************)
(* process_json: what one iteration of its loop computes from a message.   *)
(* A message is a record with the field `keys` (the keys its JSON object   *)
(* has) and one field per key; `from` is a string or null, as Telegram     *)
(* exports it.                                                             *)
(***************************************************************************)
\* emoji.EMOJI_DATA, as far as single characters of the inputs go
EMOJI_DATA == {128512, 128526, 10084, 128077}

\* extract_emojis(text)
extract_emojis(text) == SelectSeq(text, LAMBDA ch : ch \in EMOJI_DATA)

\* ResolveSender with the comparison to "unknown" made without lower()
ResolveSenderCaseSensitive(msg) ==
    LET sender == Get(msg, "from")
    IN IF \/ ~Truthy(sender)
          \/ Strip(sender.v) = <<>>
          \/ sender.v = S_unknown
       THEN None
       ELSE sender

\* sender = msg.get("from"), set to None when it is falsy, blank or "unknown"
ResolveSender(msg) ==
    LET sender == Get(msg, "from")
    IN IF \/ ~Truthy(sender)
          \/ Strip(sender.v) = <<>>
          \/ Lower(sender.v) = S_unknown
       THEN None
       ELSE sender

\* msg.get("media_type"); the string "None" stands for Python's None
MediaType(msg) == IF "media_type" \in msg.keys THEN msg.media_type ELSE "None"

\* Classify with the photo and document tests ahead of the media_type tests
ClassifyPhotoFirst(msg) ==
    LET media_type == MediaType(msg)
    IN IF "photo" \in msg.keys
       THEN [mtype |-> "photo", duration |-> None, sticker_emoji |-> None]
       ELSE IF "document" \in msg.keys
       THEN [mtype |-> "file", duration |-> None, sticker_emoji |-> None]
       ELSE IF media_type = "voice_message"
       THEN [mtype |-> "audio/voice", duration |-> Get(msg, "duration_seconds"),
             sticker_emoji |-> None]
       ELSE IF media_type = "video_message"
       THEN [mtype |-> "video", duration |-> Get(msg, "duration_seconds"),
             sticker_emoji |-> None]
       ELSE IF media_type = "sticker"
       THEN [mtype |-> "sticker", duration |-> None,
             sticker_emoji |-> Get(msg, "sticker_emoji")]
       ELSE [mtype |-> "text", duration |-> None, sticker_emoji |-> None]

\* the if / elif chain that chooses mtype, duration and sticker_emoji
Classify(msg) ==
    LET media_type == MediaType(msg)
    IN IF media_type = "voice_message"
       THEN [mtype |-> "audio/voice", duration |-> Get(msg, "duration_seconds"),
             sticker_emoji |-> None]
       ELSE IF media_type = "video_message"
       THEN [mtype |-> "video", duration |-> Get(msg, "duration_seconds"),
             sticker_emoji |-> None]
       ELSE IF media_type = "sticker"
       THEN [mtype |-> "sticker", duration |-> None,
             sticker_emoji |-> Get(msg, "sticker_emoji")]
       ELSE IF "photo" \in msg.keys
       THEN [mtype |-> "photo", duration |-> None, sticker_emoji |-> None]
       ELSE IF "document" \in msg.keys
       THEN [mtype |-> "file", duration |-> None, sticker_emoji |-> None]
       ELSE [mtype |-> "text", duration |-> None, sticker_emoji |-> None]

RECURSIVE ConcatItems(_)
\* the loop over the items of a list-valued text: text += item + " "
ConcatItems(items) ==
    IF items = <<>> THEN <<>>
    ELSE LET item == Head(items)
             piece == IF item.tag = "dict" /\ "text" \in item.keys
                      THEN item.text \o <<32>>
                      ELSE IF item.tag = "str" THEN item.v \o <<32>>
                      ELSE <<>>
         IN piece \o ConcatItems(Tail(items))

\* FlattenText without the strip() after the loop
FlattenTextNoStrip(msg) ==
    LET text_content == IF "text" \in msg.keys THEN msg.text ELSE Str(<<>>)
    IN IF text_content.tag = "list" THEN ConcatItems(text_content.v)
       ELSE IF text_content.tag = "str" THEN text_content.v
       ELSE <<>>

\* the text of a message of type text
FlattenText(msg) ==
    LET text_content == IF "text" \in msg.keys THEN msg.text ELSE Str(<<>>)
    IN IF text_content.tag = "list" THEN Strip(ConcatItems(text_content.v))
       ELSE IF text_content.tag = "str" THEN text_content.v
       ELSE <<>>

\* MakeRow reading duration_seconds and sticker_emoji for every type
MakeRowAnyMedia(msg, dt) ==
    LET cls == Classify(msg)
        text == IF cls.mtype = "text" THEN FlattenText(msg) ELSE <<>>
    IN [dt |-> dt, date |-> DateOf(dt), hour |-> dt.hour, type |-> cls.mtype,
        sender |-> ResolveSender(msg), duration |-> Get(msg, "duration_seconds"),
        sticker_emoji |-> Get(msg, "sticker_emoji"),
        text |-> text, text_length |-> Len(text)]

\* the row built for a message whose date parsed as dt
MakeRow(msg, dt) ==
    LET cls == Classify(msg)
        text == IF cls.mtype = "text" THEN FlattenText(msg) ELSE <<>>
    IN [dt |-> dt, date |-> DateOf(dt), hour |-> dt.hour, type |-> cls.mtype,
        sender |-> ResolveSender(msg), duration |-> cls.duration,
        sticker_emoji |-> cls.sticker_emoji,
        text |-> text, text_length |-> Len(text)]

(***************************************************************************)
(* The pandas steps of process_json and run_app.                           *)
(***************************************************************************)
RECURSIVE ConcatAll(_)
\* the concatenation of a sequence of sequences
ConcatAll(ss) == IF ss = <<>> THEN <<>> ELSE Head(ss) \o ConcatAll(Tail(ss))

\* the dates of the finite set K in ascending order, as groupby sorts its keys
SortedDates(K) ==
    [k \in 1..Cardinality(K) |->
        CHOOSE x \in K : Cardinality({y \in K : DateLT(y, x)}) = k - 1]

\* the integers of the finite set K in ascending order
SortedInts(K) ==
    [k \in 1..Cardinality(K) |->
        CHOOSE x \in K : Cardinality({y \in K : y < x}) = k - 1]

\* the number of rows whose field key is v
CountWhere(rows, key, v) == Cardinality({j \in DOMAIN rows : rows[j][key] = v})

\* df.groupby("date").size().reset_index(name="count")
GroupByDate(rows) ==
    LET ks == SortedDates({rows[j].date : j \in DOMAIN rows})
    IN [k \in DOMAIN ks |-> [date |-> ks[k], count |-> CountWhere(rows, "date", ks[k])]]

RECURSIVE date_range(_, _)
\* pd.date_range(start, end): every day from start to end, both included
date_range(start, end) ==
    IF DateLE(start, end) THEN <<start>> \o date_range(NextDay(start), end) ELSE <<>>

\* MergeDates as an inner join: days without rows are dropped
MergeDatesInner(all_dates, counts) ==
    ConcatAll([k \in DOMAIN all_dates |->
        LET m == SelectSeq(counts, LAMBDA e : e.date = all_dates[k])
        IN [j \in DOMAIN m |-> [date |-> all_dates[k], count |-> m[j].count]]])

\* pd.merge(all_dates, daily_counts, on="date", how="left").fillna(0)
MergeDates(all_dates, counts) ==
    ConcatAll([k \in DOMAIN all_dates |->
        LET m == SelectSeq(counts, LAMBDA e : e.date = all_dates[k])
        IN IF m = <<>> THEN <<[date |-> all_dates[k], count |-> 0]>>
           ELSE [j \in DOMAIN m |-> [date |-> all_dates[k], count |-> m[j].count]]])

\* the daily_counts frame of process_json
DailyCounts(rows) ==
    LET grouped == GroupByDate(rows)
        start_date == grouped[1].date
        end_date == grouped[Len(grouped)].date
    IN MergeDates(date_range(start_date, end_date), grouped)

\* df.groupby("hour").size().reset_index(name="count")
GroupByHour(rows) ==
    LET ks == SortedInts({rows[j].hour : j \in DOMAIN rows})
    IN [k \in DOMAIN ks |-> [hour |-> ks[k], count |-> CountWhere(rows, "hour", ks[k])]]

\* AllHours as range(1, 25)
AllHoursFromOne == [k \in 1..24 |-> k]

\* pd.DataFrame({"hour": list(range(24))})
AllHours == [k \in 1..24 |-> k - 1]

\* pd.merge(all_hours, hourly_counts, on="hour", how="left").fillna(0)
MergeHours(all_hours, counts) ==
    ConcatAll([k \in DOMAIN all_hours |->
        LET m == SelectSeq(counts, LAMBDA e : e.hour = all_hours[k])
        IN IF m = <<>> THEN <<[hour |-> all_hours[k], count |-> 0]>>
           ELSE [j \in DOMAIN m |-> [hour |-> all_hours[k], count |-> m[j].count]]])

\* the hourly_counts frame of run_app
HourlyCounts(rows) == MergeHours(AllHours, GroupByHour(rows))

(***************************************************************************)
(* collections.Counter: a sequence of [key, count] in insertion order.     *)
(***************************************************************************)
\* counter[key] += n
CounterAdd(counter, key, n) ==
    IF \E k \in DOMAIN counter : counter[k].key = key
    THEN [k \in DOMAIN counter |->
             IF counter[k].key = key
             THEN [key |-> key, count |-> counter[k].count + n]
             ELSE counter[k]]
    ELSE Append(counter, [key |-> key, count |-> n])

RECURSIVE CounterOf(_, _)
\* Counter(items), continued from counter
CounterOf(items, counter) ==
    IF items = <<>> THEN counter
    ELSE CounterOf(Tail(items), CounterAdd(counter, Head(items), 1))

\* Rank with equal counts in reverse insertion order
RankLastFirst(counter, k) ==
    Cardinality({j \in DOMAIN counter :
        \/ counter[j].count > counter[k].count
        \/ counter[j].count = counter[k].count /\ j > k}) + 1

\* the place of entry k of counter when sorted by descending count, equal
\* counts staying in insertion order
Rank(counter, k) ==
    Cardinality({j \in DOMAIN counter :
        \/ counter[j].count > counter[k].count
        \/ counter[j].count = counter[k].count /\ j < k}) + 1

\* counter.most_common(n) for an integer n
most_common(counter, n) ==
    LET m == IF n < 0 THEN 0 ELSE IF n < Len(counter) THEN n ELSE Len(counter)
    IN [r \in 1..m |-> counter[CHOOSE k \in DOMAIN counter : Rank(counter, k) = r]]

(***************************************************************************)
(* get_word_frequency.                                                     *)
(***************************************************************************)
\* a character the pattern [^а-яa-z\s] does not match, so re.sub keeps it
KeptByPattern(ch) == ch \in 1072..1103 \/ ch \in 97..122 \/ IsSpace(ch)

\* re.sub(r"[^а-яa-z\s]", "", text)
StripPattern(text) == SelectSeq(text, KeptByPattern)

\* text.lower(), re.sub(...) and text.split(): the words of the text
Tokenize(text) == Split(StripPattern(Lower(text)))

\* words = [w for w in words if w not in stop_words]
DropStopWords(words, stop_words) == SelectSeq(words, LAMBDA w : w \notin stop_words)

\* the rest of get_word_frequency; stop_words is None or a set
RankWords(words, stop_words, top_n) ==
    LET stop == IF stop_words.tag = "None" THEN {} ELSE stop_words.v
    IN most_common(CounterOf(DropStopWords(words, stop), <<>>), top_n)

\* get_word_frequency(text, stop_words, top_n)
get_word_frequency(text, stop_words, top_n) ==
    RankWords(Tokenize(text), stop_words, top_n)

(***************************************************************************)
(* The reaction pass of run_app.                                           *)
(***************************************************************************)
\* msg.get("reactions", [])
ReactionsOf(msg) == IF "reactions" \in msg.keys THEN msg.reactions ELSE <<>>

RECURSIVE RecentUsers(_, _)
\* the entries appended to reaction_list for the recent list of one reaction
RecentUsers(recent, emoji_used) ==
    IF recent = <<>> THEN <<>>
    ELSE LET user_from == Get(Head(recent), "from")
         IN (IF Truthy(user_from)
             THEN <<[user |-> user_from, emoji |-> emoji_used]>>
             ELSE <<>>) \o RecentUsers(Tail(recent), emoji_used)

RECURSIVE TallyAllTypes(_, _)
\* TallyReactions without the test of the reaction's type
TallyAllTypes(reactions, acc) ==
    IF reactions = <<>> THEN acc
    ELSE LET r == Head(reactions)
             emoji_used == Get(r, "emoji")
             count == IF "count" \in r.keys THEN r.count ELSE 0
             recent == IF "recent" \in r.keys THEN r.recent ELSE <<>>
         IN TallyAllTypes(Tail(reactions),
               [counter |-> CounterAdd(acc.counter, emoji_used, count),
                list |-> acc.list \o RecentUsers(recent, emoji_used)])

RECURSIVE TallyReactions(_, _)
\* the loop over reactions: acc holds reaction_emoji_counter and reaction_list
TallyReactions(reactions, acc) ==
    IF reactions = <<>> THEN acc
    ELSE LET r == Head(reactions)
             emoji_used == Get(r, "emoji")
             count == IF "count" \in r.keys THEN r.count ELSE 0
             recent == IF "recent" \in r.keys THEN r.recent ELSE <<>>
         IN TallyReactions(Tail(reactions),
               IF "type" \in r.keys /\ r.type = "emoji"
               THEN [counter |-> CounterAdd(acc.counter, emoji_used, count),
                     list |-> acc.list \o RecentUsers(recent, emoji_used)]
               ELSE acc)

\* the loop over data.get("messages", [])
ReactionPass(messages) ==
    TallyReactions(ConcatAll([k \in DOMAIN messages |-> ReactionsOf(messages[k])]),
                   [counter |-> <<>>, list |-> <<>>])

RECURSIVE StrLT(_, _)
\* s < t for two strings
StrLT(s, t) ==
    IF t = <<>> THEN FALSE
    ELSE IF s = <<>> THEN TRUE
    ELSE IF Head(s) # Head(t) THEN Head(s) < Head(t)
    ELSE StrLT(Tail(s), Tail(t))

\* the users of the finite set K in ascending order
SortedUsers(K) ==
    [k \in 1..Cardinality(K) |->
        CHOOSE x \in K : Cardinality({y \in K : StrLT(y.v, x.v)}) = k - 1]

\* df_reactions.groupby("user").size().reset_index(name="count")
UserReactionCounts(reaction_list) ==
    LET ks == SortedUsers({reaction_list[j].user : j \in DOMAIN reaction_list})
    IN [k \in DOMAIN ks |->
           [user |-> ks[k], count |-> CountWhere(reaction_list, "user", ks[k])]]

(***************************************************************************)
(* load_stopwords.  The contents of the word lists are data, not code: a   *)
(* few words stand for each list.                                          *)
(***************************************************************************)
\* the lines of stopwords\stopwords-ru.txt and stopwords\stopwords_en.txt
StaticLists == [ru |-> {<<1080>>}, en |-> {<<97>>}]

\* stopwords.words("russian") + stopwords.words("english")
NltkStopwords == {<<1074>>, <<105>>}

\* set(stopwords_ru + stopwords_en + nltk_stopwords), files being the static
\* lists that exist (a missing one gives [])
StopwordSet(files) ==
    (IF "ru" \in files THEN StaticLists.ru ELSE {})
    \cup (IF "en" \in files THEN StaticLists.en ELSE {})
    \cup NltkStopwords

(***************************************************************************)
(* Inputs: the uploaded documents.                                         *)
(***************************************************************************)
\* the string "YYYY-MM-DDTHH:00:00" as Telegram writes a date
DateStr(y, mo, d, h) ==
    << 48 + (y \div 1000), 48 + ((y \div 100) % 10), 48 + ((y \div 10) % 10), 48 + (y % 10),
       45, 48 + (mo \div 10), 48 + (mo % 10), 45, 48 + (d \div 10), 48 + (d % 10),
       84, 48 + (h \div 10), 48 + (h % 10), 58, 48, 48, 58, 48, 48 >>

\* a plain text message of Alice with an empty text
BaseMsg ==
    [ keys |-> {"id", "type", "date", "from", "text"},
      date |-> Str(DateStr(2024, 2, 28, 10)),
      from |-> Str(S_Alice),
      media_type |-> "None",
      duration_seconds |-> None,
      sticker_emoji |-> None,
      text |-> Str(<<>>),
      reactions |-> <<>> ]

\* values of `date`: good ones (one without a time), a day that does not
\* exist, a string that is no date, a number
GoodDates ==
    { Str(DateStr(2023, 12, 31, 23)), Str(DateStr(2024, 2, 28, 10)),
      Str(DateStr(2024, 3, 1, 10)),
      Str(SubSeq(DateStr(2024, 2, 29, 0), 1, 10)) }

BadDates ==
    { Str(DateStr(2023, 2, 29, 10)), Str(<<97, 98, 99>>), Num(5) }

DateMsgs ==
    {[BaseMsg EXCEPT !.date = dv] : dv \in GoodDates \cup BadDates}
    \cup {[BaseMsg EXCEPT !.keys = @ \ {"date"}]}

SenderMsgs ==
    {[BaseMsg EXCEPT !.from = f] :
        f \in { None, Str(<<>>), Str(<<32, 9>>), Str(S_Unknown), Str(S_UNKNOWN),
                Str(S_unknown), Str(S_Alice), Str(S_Bob), Str(<<32>> \o S_unknown) }}
    \cup {[BaseMsg EXCEPT !.keys = @ \ {"from"}]}

TypeMsgs ==
    {[BaseMsg EXCEPT !.keys = (@ \cup {"duration_seconds", "sticker_emoji"} \cup extra
                                 \cup (IF mt = "None" THEN {} ELSE {"media_type"})),
                     !.media_type = mt,
                     !.duration_seconds = Num(7),
                     !.sticker_emoji = Str(<<128526>>),
                     !.text = Str(<<97>>)] :
        mt \in {"voice_message", "video_message", "sticker", "animation", "None"},
        extra \in SUBSET {"photo", "document"}}

TextMsgs ==
    {[BaseMsg EXCEPT !.text = t] :
        t \in { Str(<<>>), Str(<<97, 32, 98>>), Str(<<32, 98, 32>>),
                Str(<<128512, 32, 97>>), Num(5), List(<<>>),
                List(<<Str(<<97>>), Frag({"type", "text"}, <<98>>)>>),
                List(<<Str(<<32, 97, 32>>), Frag({"type"}, <<>>)>>) }}
    \cup {[BaseMsg EXCEPT !.keys = @ \ {"text"}]}
    \cup {[BaseMsg EXCEPT !.keys = @ \cup {"photo"}, !.text = Str(<<99, 128512>>)]}

\* one entry of a reaction's `recent` list
Recent(keys, user) == [keys |-> keys, from |-> user]

\* one reaction object
Reaction(keys, type, emoji, count, recent) ==
    [keys |-> keys, type |-> type, emoji |-> emoji, count |-> count, recent |-> recent]

ReactionKeys == {"type", "emoji", "count", "recent"}

ReactionLists ==
    { <<Reaction(ReactionKeys, "emoji", Str(<<128077>>), 3,
          <<Recent({"from"}, Str(S_Alice)), Recent({"from"}, Str(S_Bob)),
            Recent({"from"}, Str(S_Unknown))>>)>>,
      <<Reaction(ReactionKeys, "emoji", Str(<<128077>>), 5,
          <<Recent({"from"}, Str(S_Alice))>>)>>,
      <<Reaction(ReactionKeys \ {"emoji"}, "custom_emoji", None, 2,
          <<Recent({"from"}, Str(S_Bob))>>)>>,
      <<Reaction(ReactionKeys, "emoji", Str(<<10084>>), 1, <<Recent({"date"}, None)>>)>>,
      <<Reaction(ReactionKeys, "emoji", Str(<<10084>>), 2,
          <<Recent({"from"}, Str(<<>>)), Recent({"from"}, Str(S_Bob))>>)>>,
      <<Reaction(ReactionKeys \ {"count", "recent"}, "emoji", Str(<<128077>>), 0, <<>>)>>,
      <<Reaction(ReactionKeys, "emoji", Str(<<128077>>), 2,
          <<Recent({"from"}, Str(S_Alice)), Recent({"from"}, Str(S_Alice))>>),
        Reaction(ReactionKeys, "emoji", Str(<<10084>>), 1,
          <<Recent({"from"}, Str(S_Bob))>>)>> }

ReactionMsgs ==
    {[BaseMsg EXCEPT !.keys = @ \cup {"reactions"}, !.reactions = rs] : rs \in ReactionLists}
    \cup {[BaseMsg EXCEPT !.keys = (@ \ {"date"}) \cup {"reactions"},
                          !.reactions = rs] : rs \in {l \in ReactionLists : Len(l) = 2}}

\* the sequences over S of length at most n
SeqsUpTo(S, n) == UNION {[1..k -> S] : k \in 0..n}

\* the documents json.load can return: with or without the key "messages"
Document(keys, messages) == [keys |-> keys, messages |-> messages]

(***************************************************************************)
(* State.                                                                  *)
(***************************************************************************)
VARIABLES
    uploaded_file,          \* what st.file_uploader returned
    pc,                     \* where run_app stands
    i,                      \* process_json: index of the next message (from 1)
    rows,                   \* process_json: rows
    text_corpus,            \* process_json: text_corpus
    emojis_list,            \* process_json: emojis_list
    diagnostics,            \* the st.write calls of process_json
    errors,                 \* the st.error calls
    ret,                    \* the tuple process_json returned
    hourly_counts,          \* run_app: hourly_counts
    reaction_emoji_counter, \* run_app: reaction_emoji_counter
    reaction_list,          \* run_app: reaction_list
    user_reaction_counts,   \* run_app: user_reaction_counts
    top_words,              \* run_app: top_words
    outputs,                \* the sections run_app has rendered
    nltk_data,              \* whether the NLTK stopwords corpus is installed
    download_calls,         \* number of nltk.download calls so far
    wf,                     \* a call of get_word_frequency on its own
    sw                      \* the calls of load_stopwords of one process, on their own

vars ==
    << uploaded_file, pc, i, rows, text_corpus, emojis_list, diagnostics, errors, ret,
       hourly_counts, reaction_emoji_counter, reaction_list, user_reaction_counts,
       top_words, outputs, nltk_data, download_calls, wf, sw >>

\* a value not computed yet
Unset == [tag |-> "unset"]

\* data.get("messages", [])
Messages == IF "messages" \in uploaded_file.data.keys THEN uploaded_file.data.messages ELSE <<>>

\* the documents of the model: lists of messages that differ in one aspect
Documents ==
    {Document({"name", "messages"}, ms) :
        ms \in SeqsUpTo(DateMsgs, MaxDateMsgs) \cup SeqsUpTo(SenderMsgs, MaxMsgs)
               \cup SeqsUpTo(TypeMsgs, MaxTypeMsgs) \cup SeqsUpTo(TextMsgs, MaxMsgs)
               \cup SeqsUpTo(ReactionMsgs, MaxMsgs)}
    \cup {Document({"name"}, <<>>)}

Uploads ==
    {[kind |-> "json", data |-> d] : d \in Documents}
    \cup {[kind |-> "invalid", data |-> Document({}, <<>>)],
          [kind |-> "none", data |-> Document({}, <<>>)]}

\* the call of get_word_frequency on its own is not part of run_app
NoCall ==
    [pc |-> "off", text |-> <<>>, stop_words |-> None, top_n |-> 0, words |-> <<>>,
     result |-> <<>>]

\* load_stopwords followed step by step is not part of this run
NoStopwordCall ==
    [pc |-> "off", calls |-> 0, fetches |-> 0, lookups |-> 0, files |-> {},
     stopwords_ru |-> {}, stopwords_en |-> {}, result |-> None]

Init ==
    /\ uploaded_file \in Uploads
    /\ pc = "start"
    /\ i = 1
    /\ rows = <<>>
    /\ text_corpus = <<>>
    /\ emojis_list = <<>>
    /\ diagnostics = <<>>
    /\ errors = <<>>
    /\ ret = [daily_counts |-> Unset, corpus |-> Unset, df |-> Unset, emojis_list |-> Unset]
    /\ hourly_counts = <<>>
    /\ reaction_emoji_counter = <<>>
    /\ reaction_list = <<>>
    /\ user_reaction_counts = <<>>
    /\ top_words = <<>>
    /\ outputs = {}
    /\ nltk_data \in BOOLEAN
    /\ download_calls = 0
    /\ wf = NoCall
    /\ sw = NoStopwordCall

(***************************************************************************)
(* run_app and process_json, step by step.                                 *)
(***************************************************************************)
\* run_app up to the call of process_json, and process_json up to its loop
LoadFile ==
    /\ pc = "start"
    /\ IF uploaded_file.kind = "none"
       THEN /\ pc' = "done"
            /\ UNCHANGED errors
       ELSE IF uploaded_file.kind = "invalid"
       THEN /\ errors' = Append(errors, "invalid_json")
            /\ pc' = "done"
       ELSE /\ pc' = "loop"
            /\ UNCHANGED errors
    /\ i' = 1
    /\ rows' = <<>>
    /\ text_corpus' = <<>>
    /\ emojis_list' = <<>>
    /\ UNCHANGED << uploaded_file, diagnostics, ret, hourly_counts, reaction_emoji_counter,
                    reaction_list, user_reaction_counts, top_words, outputs, nltk_data,
                    download_calls, wf, sw >>

\* LoopStep leaving the loop (break) at a date that does not parse
LoopStepBreak ==
    /\ pc = "loop"
    /\ i <= Len(Messages)
    /\ LET msg == Messages[i]
           dt == fromisoformat(msg.date)
       IN IF "date" \notin msg.keys
          THEN /\ i' = i + 1
               /\ UNCHANGED << rows, text_corpus, emojis_list, diagnostics >>
          ELSE IF ~dt.ok
          THEN /\ diagnostics' = Append(diagnostics, [date |-> msg.date, error |-> dt.error])
               /\ i' = Len(Messages) + 1
               /\ UNCHANGED << rows, text_corpus, emojis_list >>
          ELSE LET row == MakeRow(msg, dt)
               IN /\ rows' = Append(rows, row)
                  /\ text_corpus' = IF row.type = "text" /\ row.text # <<>>
                                    THEN Append(text_corpus, row.text)
                                    ELSE text_corpus
                  /\ emojis_list' = IF row.type = "text"
                                    THEN emojis_list \o extract_emojis(row.text)
                                    ELSE emojis_list
                  /\ i' = i + 1
                  /\ UNCHANGED diagnostics
    /\ UNCHANGED << uploaded_file, pc, errors, ret, hourly_counts, reaction_emoji_counter,
                    reaction_list, user_reaction_counts, top_words, outputs, nltk_data,
                    download_calls, wf, sw >>

\* one iteration of the loop of process_json
LoopStep ==
    /\ pc = "loop"
    /\ i <= Len(Messages)
    /\ LET msg == Messages[i]
           dt == fromisoformat(msg.date)
       IN IF "date" \notin msg.keys
          THEN UNCHANGED << rows, text_corpus, emojis_list, diagnostics >>
          ELSE IF ~dt.ok
          THEN /\ diagnostics' = Append(diagnostics, [date |-> msg.date, error |-> dt.error])
               /\ UNCHANGED << rows, text_corpus, emojis_list >>
          ELSE LET row == MakeRow(msg, dt)
               IN /\ rows' = Append(rows, row)
                  /\ text_corpus' = IF row.type = "text" /\ row.text # <<>>
                                    THEN Append(text_corpus, row.text)
                                    ELSE text_corpus
                  /\ emojis_list' = IF row.type = "text"
                                    THEN emojis_list \o extract_emojis(row.text)
                                    ELSE emojis_list
                  /\ UNCHANGED diagnostics
    /\ i' = i + 1
    /\ UNCHANGED << uploaded_file, pc, errors, ret, hourly_counts, reaction_emoji_counter,
                    reaction_list, user_reaction_counts, top_words, outputs, nltk_data,
                    download_calls, wf, sw >>

\* ProcessReturn handing back the corpus and the emoji list without rows
ProcessReturnPartial ==
    /\ pc = "loop"
    /\ i > Len(Messages)
    /\ IF rows = <<>>
       THEN /\ errors' = Append(errors, "no_data")
            /\ ret' = [daily_counts |-> None, corpus |-> Str(Join(<<32>>, text_corpus)),
                       df |-> None, emojis_list |-> List(emojis_list)]
       ELSE /\ ret' = [daily_counts |-> Frame(DailyCounts(rows)),
                       corpus |-> Str(Join(<<32>>, text_corpus)),
                       df |-> Frame(rows),
                       emojis_list |-> List(emojis_list)]
            /\ UNCHANGED errors
    /\ pc' = "returned"
    /\ UNCHANGED << uploaded_file, i, rows, text_corpus, emojis_list, diagnostics,
                    hourly_counts, reaction_emoji_counter, reaction_list,
                    user_reaction_counts, top_words, outputs, nltk_data, download_calls, wf, sw >>

\* process_json after its loop: the four values it returns
ProcessReturn ==
    /\ pc = "loop"
    /\ i > Len(Messages)
    /\ IF rows = <<>>
       THEN /\ errors' = Append(errors, "no_data")
            /\ ret' = [daily_counts |-> None, corpus |-> None, df |-> None,
                       emojis_list |-> None]
       ELSE /\ ret' = [daily_counts |-> Frame(DailyCounts(rows)),
                       corpus |-> Str(Join(<<32>>, text_corpus)),
                       df |-> Frame(rows),
                       emojis_list |-> List(emojis_list)]
            /\ UNCHANGED errors
    /\ pc' = "returned"
    /\ UNCHANGED << uploaded_file, i, rows, text_corpus, emojis_list, diagnostics,
                    hourly_counts, reaction_emoji_counter, reaction_list,
                    user_reaction_counts, top_words, outputs, nltk_data, download_calls, wf, sw >>

\* run_app: the check of what process_json returned, then the daily charts
DailyChart ==
    /\ pc = "returned"
    /\ IF ret.daily_counts = None
       THEN /\ pc' = "done"
            /\ UNCHANGED outputs
       ELSE /\ outputs' = outputs \cup {"daily", "last_week"}
            /\ pc' = "hourly"
    /\ UNCHANGED << uploaded_file, i, rows, text_corpus, emojis_list, diagnostics, errors,
                    ret, hourly_counts, reaction_emoji_counter, reaction_list,
                    user_reaction_counts, top_words, nltk_data, download_calls, wf, sw >>

\* run_app: activity by hour
HourlyChart ==
    /\ pc = "hourly"
    /\ hourly_counts' = HourlyCounts(ret.df.v)
    /\ outputs' = outputs \cup {"hourly"}
    /\ pc' = "media"
    /\ UNCHANGED << uploaded_file, i, rows, text_corpus, emojis_list, diagnostics, errors,
                    ret, reaction_emoji_counter, reaction_list, user_reaction_counts,
                    top_words, nltk_data, download_calls, wf, sw >>

\* the rows of df of one of the given types
OfTypes(df, types) == SelectSeq(df, LAMBDA r : r.type \in types)

\* run_app: sections 2 to 6, which render the media, voice, video, text and
\* sticker statistics that have rows to show
MediaStats ==
    /\ pc = "media"
    /\ LET df == ret.df.v
       IN outputs' = outputs
            \cup (IF OfTypes(df, {"photo", "video", "sticker", "file"}) # <<>>
                  THEN {"media"} ELSE {})
            \cup (IF \E k \in DOMAIN df : df[k].type = "audio/voice" /\ df[k].duration # None
                  THEN {"voice"} ELSE {})
            \cup (IF \E k \in DOMAIN df : df[k].type = "video" /\ df[k].duration # None
                  THEN {"video"} ELSE {})
            \cup (IF OfTypes(df, {"text"}) # <<>> THEN {"text"} ELSE {})
            \cup (IF \E k \in DOMAIN df : df[k].type = "sticker" /\ df[k].sticker_emoji # None
                  THEN {"sticker"} ELSE {})
    /\ pc' = "emoji"
    /\ UNCHANGED << uploaded_file, i, rows, text_corpus, emojis_list, diagnostics, errors,
                    ret, hourly_counts, reaction_emoji_counter, reaction_list,
                    user_reaction_counts, top_words, nltk_data, download_calls, wf, sw >>

\* run_app: section 7, the emoji of the texts
EmojiStats ==
    /\ pc = "emoji"
    /\ outputs' = IF ret.emojis_list.v # <<>> THEN outputs \cup {"emoji"} ELSE outputs
    /\ pc' = "reactions"
    /\ UNCHANGED << uploaded_file, i, rows, text_corpus, emojis_list, diagnostics, errors,
                    ret, hourly_counts, reaction_emoji_counter, reaction_list,
                    user_reaction_counts, top_words, nltk_data, download_calls, wf, sw >>

\* run_app: section 8, the reactions of the raw messages
ReactionStats ==
    /\ pc = "reactions"
    /\ LET tally == ReactionPass(Messages)
       IN /\ reaction_emoji_counter' = tally.counter
          /\ reaction_list' = tally.list
          /\ user_reaction_counts' =
                IF tally.list # <<>> THEN UserReactionCounts(tally.list) ELSE <<>>
          /\ outputs' = outputs \cup {"reaction_total"}
                \cup (IF tally.counter # <<>> THEN {"reaction_emoji"} ELSE {})
                \cup (IF tally.list # <<>> THEN {"reaction_users"} ELSE {})
    /\ pc' = "words"
    /\ UNCHANGED << uploaded_file, i, rows, text_corpus, emojis_list, diagnostics, errors,
                    ret, hourly_counts, top_words, nltk_data, download_calls, wf, sw >>

\* top_n of the call of get_word_frequency in run_app
TopWords == 20

\* run_app: section 9, the most frequent words; load_stopwords reads the two
\* static lists that exist and downloads the NLTK corpus when it is missing
WordStats ==
    /\ pc = "words"
    /\ IF ~Truthy(ret.corpus)
       THEN /\ pc' = "done"
            /\ UNCHANGED << top_words, outputs, nltk_data, download_calls >>
       ELSE \E files \in SUBSET {"ru", "en"}, downloaded \in BOOLEAN :
            /\ nltk_data' = (nltk_data \/ downloaded)
            /\ download_calls' = IF nltk_data THEN download_calls ELSE download_calls + 1
            /\ IF nltk_data'
               THEN /\ top_words' = get_word_frequency(ret.corpus.v,
                                                       SetOf(StopwordSet(files)), TopWords)
                    /\ outputs' = IF top_words' # <<>> THEN outputs \cup {"words"} ELSE outputs
                    /\ pc' = "done"
               ELSE \* the LookupError of the second attempt leaves run_app
                    /\ pc' = "failed"
                    /\ UNCHANGED << top_words, outputs >>
    /\ UNCHANGED << uploaded_file, i, rows, text_corpus, emojis_list, diagnostics, errors,
                    ret, hourly_counts, reaction_emoji_counter, reaction_list,
                    user_reaction_counts, wf, sw >>

Next ==
    \/ LoadFile
    \/ LoopStep
    \/ ProcessReturn
    \/ DailyChart
    \/ HourlyChart
    \/ MediaStats
    \/ EmojiStats
    \/ ReactionStats
    \/ WordStats

Spec == Init /\ [][Next]_vars

(***************************************************************************)
(* get_word_frequency on its own: any text, stopword set and top_n.        *)
(***************************************************************************)
\* the words a text is made of: "a", "b", "A", "a-b1", "ёж", "Я", "😀c<tab>b!"
Vocabulary ==
    { <<97>>, <<98>>, <<65>>, <<97, 45, 98, 49>>, <<1105, 1078>>, <<1071>>,
      <<128512, 99, 9, 98, 33>> }

WfTexts == {Join(<<32>>, ws) : ws \in SeqsUpTo(Vocabulary, MaxWords)}

WfStopSets == {None, SetOf({}), SetOf({<<97>>}), SetOf({<<98>>, <<1103>>})}

InitWF ==
    /\ uploaded_file = [kind |-> "none", data |-> Document({}, <<>>)]
    /\ pc = "off"
    /\ i = 1
    /\ rows = <<>>
    /\ text_corpus = <<>>
    /\ emojis_list = <<>>
    /\ diagnostics = <<>>
    /\ errors = <<>>
    /\ ret = [daily_counts |-> Unset, corpus |-> Unset, df |-> Unset, emojis_list |-> Unset]
    /\ hourly_counts = <<>>
    /\ reaction_emoji_counter = <<>>
    /\ reaction_list = <<>>
    /\ user_reaction_counts = <<>>
    /\ top_words = <<>>
    /\ outputs = {}
    /\ nltk_data = TRUE
    /\ download_calls = 0
    /\ wf \in {[pc |-> "call", text |-> t, stop_words |-> stop, top_n |-> n,
                words |-> <<>>, result |-> <<>>] :
                  t \in WfTexts, stop \in WfStopSets, n \in 0..MaxTopN}
    /\ sw = NoStopwordCall

pipeline_vars ==
    << uploaded_file, pc, i, rows, text_corpus, emojis_list, diagnostics, errors, ret,
       hourly_counts, reaction_emoji_counter, reaction_list, user_reaction_counts,
       top_words, outputs, nltk_data, download_calls >>

\* get_word_frequency: the text is lowercased, stripped of the characters
\* the pattern matches, and split
WfTokenize ==
    /\ wf.pc = "call"
    /\ wf' = [wf EXCEPT !.pc = "tokenized", !.words = Tokenize(wf.text)]
    /\ UNCHANGED << pipeline_vars, sw >>

\* get_word_frequency: stopwords are dropped, the rest counted and ranked
WfRank ==
    /\ wf.pc = "tokenized"
    /\ wf' = [wf EXCEPT !.pc = "done",
                        !.result = RankWords(wf.words, wf.stop_words, wf.top_n)]
    /\ UNCHANGED << pipeline_vars, sw >>

NextWF == WfTokenize \/ WfRank

SpecWF == InitWF /\ [][NextWF]_vars

(***************************************************************************)
(* load_stopwords on its own: the calls one process makes, one per run of  *)
(* run_app that has a corpus.  Whether a static list exists and whether    *)
(* nltk.download gets the corpus are the environment's choice.             *)
(***************************************************************************)
InitSW ==
    /\ uploaded_file = [kind |-> "none", data |-> Document({}, <<>>)]
    /\ pc = "off"
    /\ i = 1
    /\ rows = <<>>
    /\ text_corpus = <<>>
    /\ emojis_list = <<>>
    /\ diagnostics = <<>>
    /\ errors = <<>>
    /\ ret = [daily_counts |-> Unset, corpus |-> Unset, df |-> Unset, emojis_list |-> Unset]
    /\ hourly_counts = <<>>
    /\ reaction_emoji_counter = <<>>
    /\ reaction_list = <<>>
    /\ user_reaction_counts = <<>>
    /\ top_words = <<>>
    /\ outputs = {}
    /\ nltk_data \in BOOLEAN
    /\ download_calls = 0
    /\ wf = NoCall
    /\ sw = [NoStopwordCall EXCEPT !.pc = "idle"]

run_vars ==
    << uploaded_file, pc, i, rows, text_corpus, emojis_list, diagnostics, errors, ret,
       hourly_counts, reaction_emoji_counter, reaction_list, user_reaction_counts,
       top_words, outputs, wf >>

\* run_app calls load_stopwords: once per run, also after a run that failed
SwCall ==
    /\ sw.pc \in {"idle", "returned", "raised"}
    /\ sw.calls < MaxCalls
    /\ sw' = [sw EXCEPT !.pc = "called", !.calls = @ + 1, !.fetches = 0, !.lookups = 0,
                        !.files = {}, !.stopwords_ru = {}, !.stopwords_en = {},
                        !.result = None]
    /\ UNCHANGED << run_vars, nltk_data, download_calls >>

\* load_stopwords: the two static lists, [] for one that is missing
SwReadFiles ==
    /\ sw.pc = "called"
    /\ \E files \in SUBSET {"ru", "en"} :
         sw' = [sw EXCEPT !.pc = "files_read",
                          !.files = files,
                          !.stopwords_ru = IF "ru" \in files THEN StaticLists.ru ELSE {},
                          !.stopwords_en = IF "en" \in files THEN StaticLists.en ELSE {}]
    /\ UNCHANGED << run_vars, nltk_data, download_calls >>

\* load_stopwords: stopwords.words(...) in the try block
SwLookup ==
    /\ sw.pc = "files_read"
    /\ sw' = [sw EXCEPT !.pc = IF nltk_data THEN "have_words" ELSE "lookup_error",
                        !.lookups = @ + 1]
    /\ UNCHANGED << run_vars, nltk_data, download_calls >>

\* load_stopwords: nltk.download("stopwords") in the except block
SwDownload ==
    /\ sw.pc = "lookup_error"
    /\ \E downloaded \in BOOLEAN : nltk_data' = downloaded
    /\ download_calls' = download_calls + 1
    /\ sw' = [sw EXCEPT !.pc = "downloaded", !.fetches = @ + 1]
    /\ UNCHANGED run_vars

\* load_stopwords: stopwords.words(...) again; its LookupError is not caught
SwRetry ==
    /\ sw.pc = "downloaded"
    /\ sw' = [sw EXCEPT !.pc = IF nltk_data THEN "have_words" ELSE "raised",
                        !.lookups = @ + 1]
    /\ UNCHANGED << run_vars, nltk_data, download_calls >>

\* load_stopwords: return set(stopwords_ru + stopwords_en + nltk_stopwords)
SwReturn ==
    /\ sw.pc = "have_words"
    /\ sw' = [sw EXCEPT !.pc = "returned",
                        !.result = SetOf(sw.stopwords_ru \cup sw.stopwords_en
                                         \cup NltkStopwords)]
    /\ UNCHANGED << run_vars, nltk_data, download_calls >>

NextSW == SwCall \/ SwReadFiles \/ SwLookup \/ SwDownload \/ SwRetry \/ SwReturn

SpecSW == InitSW /\ [][NextSW]_vars

(***************************************************************************)
(* Properties.                                                             *)
(***************************************************************************)
\* a message process_json makes a row of: its date is present and parses
Normalizable(msg) == "date" \in msg.keys /\ fromisoformat(msg.date).ok

\* the messages walked so far that have a row, in document order
Walked == SelectSeq(SubSeq(Messages, 1, i - 1), Normalizable)

\* process_json has returned rows
HasFrame == ret.daily_counts.tag = "frame"

RECURSIVE SumCounts(_)
SumCounts(entries) ==
    IF entries = <<>> THEN 0 ELSE Head(entries).count + SumCounts(Tail(entries))

\* days of the year before month m, from the table of a common year
DaysBefore(y, m) ==
    <<0, 31, 59, 90, 120, 151, 181, 212, 243, 273, 304, 334>>[m]
    + (IF m > 2 /\ IsLeap(y) THEN 1 ELSE 0)

\* the number of the day d, counting from 0001-01-01 as day 1
ToOrdinal(d) ==
    LET y == d.year - 1
    IN 365 * y + (y \div 4) - (y \div 100) + (y \div 400) + DaysBefore(d.year, d.month) + d.day

IsCalendarDay(d) == d.month \in 1..12 /\ d.day \in 1..DaysInMonth(d.year, d.month)

\* C1: when process_json returns rows, daily_counts has exactly one entry for
\* every calendar day from the earliest to the latest row date and none
\* outside, in ascending order without duplicates; each count is the number
\* of rows of that day (0 when there is none) and the counts sum to the
\* number of rows.
C1_DailySeries ==
    HasFrame =>
        LET dc == ret.daily_counts.v
            df == ret.df.v
            ords == {ToOrdinal(df[j].date) : j \in DOMAIN df}
            lo == CHOOSE o \in ords : \A p \in ords : o <= p
            hi == CHOOSE o \in ords : \A p \in ords : p <= o
        IN /\ Len(dc) = hi - lo + 1
           /\ \A k \in DOMAIN dc :
                /\ IsCalendarDay(dc[k].date)
                /\ ToOrdinal(dc[k].date) = lo + k - 1
                /\ dc[k].count = Cardinality({j \in DOMAIN df : df[j].date = dc[k].date})
           /\ SumCounts(dc) = Len(df)

\* a series with a day without rows, a day with two rows, and a month change
C1_Witness ==
    /\ HasFrame
    /\ \E k \in DOMAIN ret.daily_counts.v : ret.daily_counts.v[k].count = 0
    /\ \E k \in DOMAIN ret.daily_counts.v : ret.daily_counts.v[k].count = 2
    /\ \E k \in DOMAIN ret.daily_counts.v : ret.daily_counts.v[k].date.day = 29
    /\ Len(ret.daily_counts.v) > 31

\* the type the precedence order gives a message
TypeByPrecedence(msg) ==
    LET mt == IF "media_type" \in msg.keys THEN msg.media_type ELSE "None"
        byMedia == [voice_message |-> "audio/voice", video_message |-> "video",
                    sticker |-> "sticker"]
    IN IF mt \in DOMAIN byMedia THEN byMedia[mt]
       ELSE IF "photo" \in msg.keys THEN "photo"
       ELSE IF "document" \in msg.keys THEN "file"
       ELSE "text"

\* C2: every row has exactly one of the six types, the one of the first match
\* in the order voice_message, video_message, sticker, photo, document, text;
\* a message with one of the three media types and a photo or document key
\* is never photo or file.
C2_TypePrecedence ==
    /\ Len(rows) = Len(Walked)
    /\ \A k \in DOMAIN rows :
         LET msg == Walked[k]
         IN /\ rows[k].type \in {"text", "photo", "video", "audio/voice", "sticker", "file"}
            /\ rows[k].type = TypeByPrecedence(msg)
            /\ ( /\ "media_type" \in msg.keys
                 /\ msg.media_type \in {"voice_message", "video_message", "sticker"}
                 /\ msg.keys \cap {"photo", "document"} # {} )
               => rows[k].type \notin {"photo", "file"}

\* a sticker with a photo key was classified, and so was a photo with a
\* media type that is none of the three
C2_Witness ==
    \E k \in DOMAIN rows :
        /\ Len(rows) = Len(Walked)
        /\ "photo" \in Walked[k].keys
        /\ "media_type" \in Walked[k].keys
        /\ Walked[k].media_type = "sticker"
        /\ rows[k].type = "sticker"

\* s is "unknown" in any mix of upper and lower case
IsUnknownAnyCase(s) ==
    /\ Len(s) = Len(S_unknown)
    /\ \A k \in DOMAIN s : s[k] = S_unknown[k] \/ s[k] = S_UNKNOWN[k]

IsBlank(s) == \A k \in DOMAIN s : IsSpace(s[k])

\* C3: the sender of a row is None when `from` is absent, empty, only
\* whitespace or "unknown" in any case, and the raw `from` otherwise; it is
\* never an empty or whitespace-only string.
C3_SenderResolution ==
    /\ Len(rows) = Len(Walked)
    /\ \A k \in DOMAIN rows :
         LET msg == Walked[k]
             noSender == \/ "from" \notin msg.keys
                         \/ msg.from.tag = "str"
                            /\ (IsBlank(msg.from.v) \/ IsUnknownAnyCase(msg.from.v))
         IN /\ noSender => rows[k].sender = None
            /\ ~noSender => rows[k].sender = msg.from
            /\ rows[k].sender.tag = "str" => ~IsBlank(rows[k].sender.v)

\* "UNKNOWN" and a blank `from` gave None and "Bob" stayed "Bob"
C3_Witness ==
    /\ Len(rows) = Len(Walked)
    /\ \E k \in DOMAIN rows :
         Walked[k].from \in {Str(S_UNKNOWN), Str(<<32, 9>>)} /\ rows[k].sender = None
    /\ \E k \in DOMAIN rows : rows[k].sender = Str(S_Bob)

\* a message whose date is present and does not parse
BadDate(msg) == "date" \in msg.keys /\ ~fromisoformat(msg.date).ok

\* C4: at every point of the pass the rows are, in document order, exactly
\* one per message walked so far whose date is present and parses, and the
\* diagnostics are exactly one per message walked so far whose date is
\* present and does not parse (none for a missing date), each carrying the
\* raw value; once the pass is over every message has been walked.
C4_OneRowPerDatedMessage ==
    LET walkedBad == SelectSeq(SubSeq(Messages, 1, i - 1), BadDate)
    IN /\ Len(rows) = Len(Walked)
       /\ \A k \in DOMAIN rows :
            /\ rows[k].date = DateOf(fromisoformat(Walked[k].date))
            /\ rows[k].hour = fromisoformat(Walked[k].date).hour
       /\ Len(diagnostics) = Len(walkedBad)
       /\ \A k \in DOMAIN diagnostics : diagnostics[k].date = walkedBad[k].date
       /\ pc \in {"returned", "hourly", "media", "emoji", "reactions", "words", "done",
                  "failed"} /\ uploaded_file.kind = "json"
            => i = Len(Messages) + 1

\* the pass is over; a message with a bad date and one without a date came
\* before a message that has its row
C4_Witness ==
    /\ pc = "returned"
    /\ Len(Messages) = 3
    /\ BadDate(Messages[1])
    /\ "date" \notin Messages[2].keys
    /\ Normalizable(Messages[3])
    /\ Len(rows) = 1
    /\ Len(diagnostics) = 1

\* no message of the document has a row
NoUsableData == \A k \in DOMAIN Messages : ~Normalizable(Messages[k])

\* C5: when no message gives a row (no `messages` key, an empty list, only
\* messages without a usable date) process_json reports "no usable data" and
\* returns four None, and run_app stops without any output; an upload that
\* is not JSON is reported and run_app stops before process_json runs.
C5_NoUsableDataHalts ==
    /\ ( /\ uploaded_file.kind = "json"
         /\ NoUsableData
         /\ pc \notin {"start", "loop"} )
       => /\ pc \in {"returned", "done"}
          /\ ret = [daily_counts |-> None, corpus |-> None, df |-> None, emojis_list |-> None]
          /\ errors = <<"no_data">>
          /\ outputs = {}
          /\ hourly_counts = <<>> /\ top_words = <<>>
          /\ reaction_emoji_counter = <<>> /\ reaction_list = <<>>
    /\ (uploaded_file.kind = "invalid" /\ pc # "start")
       => /\ pc = "done"
          /\ errors = <<"invalid_json">>
          /\ ret.daily_counts = Unset
          /\ outputs = {}

\* run_app has stopped on a document whose messages all lack a usable date
\* although one of them has text, or on a document without `messages`
C5_Witness ==
    /\ pc = "done"
    /\ errors = <<"no_data">>
    /\ \/ Len(Messages) = 2 /\ BadDate(Messages[1]) /\ "date" \notin Messages[2].keys
       \/ "messages" \notin uploaded_file.data.keys

\* C6: the hourly series of run_app has 24 entries, the hours 0..23 in
\* ascending order, each with the number of rows of that hour (0 when there
\* is none), and the counts sum to the number of rows.
C6_HourlySeries ==
    "hourly" \in outputs =>
        /\ Len(hourly_counts) = 24
        /\ \A k \in 1..24 :
             /\ hourly_counts[k].hour = k - 1
             /\ hourly_counts[k].count =
                   Cardinality({j \in DOMAIN ret.df.v : ret.df.v[j].hour = k - 1})
        /\ SumCounts(hourly_counts) = Len(ret.df.v)

\* a series with rows at hour 0 and hour 23 and two rows in one hour
C6_Witness ==
    /\ "hourly" \in outputs
    /\ hourly_counts[1].count > 0
    /\ hourly_counts[24].count > 0
    /\ \E k \in 1..24 : hourly_counts[k].count = 0
    /\ Len(ret.df.v) = 3

\* a letter of the Cyrillic blocks, a letter of the Latin blocks
IsCyrillicLetter(ch) == ch \in 1024..1153 \/ ch \in 1162..1327

IsLatinLetter(ch) ==
    \/ ch \in 65..90 \/ ch \in 97..122
    \/ (ch \in 192..591 /\ ch \notin {215, 247})

\* C7: get_word_frequency lowercases the text and removes exactly the
\* characters that are neither a Cyrillic letter, a Latin letter nor
\* whitespace, so the words are those of the lowercased text with every such
\* letter kept.
C7_KeepsEveryLetter ==
    wf.pc \in {"tokenized", "done"} =>
        wf.words = Split(SelectSeq(Lower(wf.text),
                            LAMBDA ch : IsCyrillicLetter(ch) \/ IsLatinLetter(ch) \/ IsSpace(ch)))

\* the tokens that survive the stopword filter of the call
Surviving ==
    LET stop == IF wf.stop_words = None THEN {} ELSE wf.stop_words.v
    IN SelectSeq(wf.words, LAMBDA w : w \notin stop)

\* the number of occurrences of w among the surviving tokens
Occurrences(w) == Cardinality({k \in DOMAIN Surviving : Surviving[k] = w})

\* where w is first met among the surviving tokens
FirstMet(w) == CHOOSE k \in DOMAIN Surviving : Surviving[k] = w /\ \A j \in 1..(k - 1) : Surviving[j] # w

\* w1 ranks before w2: more occurrences, or as many and met first
RanksBefore(w1, w2) ==
    \/ Occurrences(w1) > Occurrences(w2)
    \/ Occurrences(w1) = Occurrences(w2) /\ FirstMet(w1) < FirstMet(w2)

\* C8: the list get_word_frequency returns has at most top_n entries, holds no
\* stopword, pairs each word with its number of occurrences among the
\* surviving tokens, is in descending order of count with equal counts in
\* first-met order, holds the top_n first words of that order, and is empty
\* when no token survives.
C8_TopNRanking ==
    wf.pc = "done" =>
        LET res == wf.result
            words == {Surviving[k] : k \in DOMAIN Surviving}
            n == Cardinality(words)
        IN /\ Len(res) <= wf.top_n
           /\ Len(res) = IF wf.top_n < n THEN wf.top_n ELSE n
           /\ \A k \in DOMAIN res :
                /\ res[k].key \in words
                /\ wf.stop_words # None => res[k].key \notin wf.stop_words.v
                /\ res[k].count = Occurrences(res[k].key)
           /\ \A k, l \in DOMAIN res : k < l => RanksBefore(res[k].key, res[l].key)
           /\ \A w \in words \ {res[k].key : k \in DOMAIN res} :
                \A k \in DOMAIN res : RanksBefore(res[k].key, w)
           /\ Surviving = <<>> => res = <<>>

\* a ranking cut to two of three words, the cut falling between words of
\* equal count, with a stopword dropped from the text
C8_Witness ==
    /\ wf.pc = "done"
    /\ wf.top_n = 2
    /\ Len(wf.result) = 2
    /\ Len(Surviving) < Len(wf.words)
    /\ Cardinality({Surviving[k] : k \in DOMAIN Surviving}) = 3
    /\ wf.result[1].count = wf.result[2].count

\* the reaction entries of type "emoji" of the document, in document order
EmojiReactions ==
    SelectSeq(ConcatAll([k \in DOMAIN Messages |->
                  IF "reactions" \in Messages[k].keys THEN Messages[k].reactions ELSE <<>>]),
              LAMBDA r : "type" \in r.keys /\ r.type = "emoji")

RECURSIVE SumSeq(_)
SumSeq(ns) == IF ns = <<>> THEN 0 ELSE Head(ns) + SumSeq(Tail(ns))

\* the `recent` list of a reaction, and those of its entries that name a user
RecentOf(r) == IF "recent" \in r.keys THEN r.recent ELSE <<>>

NamedRecentOf(r) ==
    SelectSeq(RecentOf(r),
              LAMBDA x : "from" \in x.keys /\ x.from.tag = "str" /\ x.from.v # <<>>)

\* the emoji of a reaction (None without the key) and its count (0 without)
EmojiOf(r) == IF "emoji" \in r.keys THEN r.emoji ELSE None

CountOf(r) == IF "count" \in r.keys THEN r.count ELSE 0

\* the per-emoji totals are the sums of `count` over the reactions of type
\* "emoji", and reactions of other types add nothing
EmojiTotalsRight ==
    /\ {reaction_emoji_counter[k].key : k \in DOMAIN reaction_emoji_counter}
          = {EmojiOf(EmojiReactions[k]) : k \in DOMAIN EmojiReactions}
    /\ \A k \in DOMAIN reaction_emoji_counter :
         /\ \A l \in DOMAIN reaction_emoji_counter :
               reaction_emoji_counter[l].key = reaction_emoji_counter[k].key => l = k
         /\ reaction_emoji_counter[k].count =
               SumSeq([j \in DOMAIN EmojiReactions |->
                          IF EmojiOf(EmojiReactions[j]) = reaction_emoji_counter[k].key
                          THEN CountOf(EmojiReactions[j]) ELSE 0])

\* the per-user counts are the numbers of entries of reaction_list per user
UserCountsRight ==
    /\ {user_reaction_counts[k].user : k \in DOMAIN user_reaction_counts}
          = {reaction_list[k].user : k \in DOMAIN reaction_list}
    /\ \A k \in DOMAIN user_reaction_counts :
         user_reaction_counts[k].count =
            Cardinality({j \in DOMAIN reaction_list :
                            reaction_list[j].user = user_reaction_counts[k].user})

\* C9 as stated: every reaction of type "emoji" adds its count to the total of
\* its emoji and one per-user occurrence for EVERY entry of its recent list.
C9_OneOccurrencePerRecentEntry ==
    "reaction_total" \in outputs =>
        /\ EmojiTotalsRight
        /\ UserCountsRight
        /\ Len(reaction_list)
              = SumSeq([k \in DOMAIN EmojiReactions |-> Len(RecentOf(EmojiReactions[k]))])

\* C9 amended: every reaction of type "emoji" adds its count (0 without the
\* key) to the total of its emoji and one per-user occurrence for every entry
\* of its recent list whose `from` is present and not empty, whatever the
\* count; an entry without a user is skipped; other types change nothing.
C9_OneOccurrencePerNamedRecentEntry ==
    "reaction_total" \in outputs =>
        /\ EmojiTotalsRight
        /\ UserCountsRight
        /\ reaction_list =
              ConcatAll([k \in DOMAIN EmojiReactions |->
                  LET named == NamedRecentOf(EmojiReactions[k])
                  IN [j \in DOMAIN named |->
                         [user |-> named[j].from, emoji |-> EmojiOf(EmojiReactions[k])]]])

\* a reaction with count 2 whose recent list has one entry with a user and
\* one without gave one occurrence
C9_Witness ==
    /\ "reaction_total" \in outputs
    /\ \E k \in DOMAIN EmojiReactions :
         /\ CountOf(EmojiReactions[k]) = 2
         /\ Len(RecentOf(EmojiReactions[k])) = 2
         /\ Len(NamedRecentOf(EmojiReactions[k])) = 1
    /\ Len(Messages) = 1
    /\ Len(reaction_list) = 1
    /\ user_reaction_counts = <<[user |-> Str(S_Bob), count |-> 1]>>

\* the string values of the fragments of a list-valued text
FragmentValues(items) ==
    LET usable == SelectSeq(items, LAMBDA it :
                      it.tag = "str" \/ (it.tag = "dict" /\ "text" \in it.keys))
    IN [k \in DOMAIN usable |-> IF usable[k].tag = "str" THEN usable[k].v ELSE usable[k].text]

\* the text a row of the given type has for the message
TextOfRow(type, msg) ==
    IF type # "text" \/ "text" \notin msg.keys THEN <<>>
    ELSE IF msg.text.tag = "list" THEN Strip(Join(<<32>>, FragmentValues(msg.text.v)))
    ELSE IF msg.text.tag = "str" THEN msg.text.v
    ELSE <<>>

\* C10: the text of a row of type text is the raw string, or the trimmed
\* single-space join of the fragments of a raw list, and text_length its
\* length; rows of other types have text "" and length 0; the corpus is the
\* single-space join, in row order, of the non-empty texts of the rows of
\* type text, and the emoji list holds the emoji of those texts alone.
C10_CorpusOfTextRows ==
    /\ Len(rows) = Len(Walked)
    /\ \A k \in DOMAIN rows :
         /\ rows[k].text = TextOfRow(rows[k].type, Walked[k])
         /\ rows[k].text_length = Len(rows[k].text)
         /\ rows[k].type # "text" => rows[k].text = <<>> /\ rows[k].text_length = 0
    /\ HasFrame =>
         LET df == ret.df.v
             texts == SelectSeq(df, LAMBDA r : r.type = "text" /\ r.text # <<>>)
         IN /\ ret.corpus = Str(Join(<<32>>, [k \in DOMAIN texts |-> texts[k].text]))
            /\ ret.emojis_list =
                  List(ConcatAll([k \in DOMAIN df |->
                          IF df[k].type = "text"
                          THEN SelectSeq(df[k].text, LAMBDA ch : ch \in EMOJI_DATA)
                          ELSE <<>>]))

\* a photo that carries a text with an emoji, then a list-valued text
C10_Witness ==
    /\ HasFrame
    /\ Len(rows) = 2
    /\ rows[1].type = "photo" /\ Walked[1].text = Str(<<99, 128512>>)
    /\ Walked[2].text.tag = "list" /\ rows[2].text = <<97>>
    /\ ret.corpus = Str(<<97>>)
    /\ ret.emojis_list = List(<<>>)

\* C12: in every row duration is set only for the types audio/voice and
\* video, sticker_emoji only for the type sticker, text is non-empty (and
\* text_length positive) only for the type text, and text_length is the
\* length of text; so the corpus and the emoji list returned with the rows
\* are empty when no row of type text has text.
C12_FieldCoupling ==
    /\ \A k \in DOMAIN rows :
         /\ rows[k].duration # None => rows[k].type \in {"audio/voice", "video"}
         /\ rows[k].sticker_emoji # None => rows[k].type = "sticker"
         /\ (rows[k].text # <<>> \/ rows[k].text_length > 0) => rows[k].type = "text"
         /\ rows[k].text_length = Len(rows[k].text)
    /\ (HasFrame /\ \A k \in DOMAIN rows : rows[k].type = "text" => rows[k].text = <<>>)
         => ret.corpus = Str(<<>>) /\ ret.emojis_list = List(<<>>)
    /\ Len(text_corpus) <= Cardinality({k \in DOMAIN rows : rows[k].type = "text"})

\* a photo whose message has duration_seconds, sticker_emoji, a media type
\* and a text got no duration, no sticker emoji and no text
C12_Witness ==
    /\ Len(rows) = 1
    /\ Len(rows) = Len(Walked)
    /\ rows[1].type = "photo"
    /\ {"duration_seconds", "sticker_emoji", "text", "media_type"} \subseteq Walked[1].keys
    /\ Walked[1].text = Str(<<97>>)
    /\ rows[1].duration = None /\ rows[1].sticker_emoji = None
    /\ rows[1].text = <<>> /\ rows[1].text_length = 0

\* within one call of load_stopwords a missing corpus is fetched once and
\* looked up once more, and the call raises only after that second lookup
OneFetchOneRetryPerCall ==
    /\ sw.fetches <= 1
    /\ sw.lookups <= sw.fetches + 1
    /\ sw.pc \in {"downloaded"} => sw.fetches = 1 /\ sw.lookups = 1
    /\ sw.pc = "raised" => sw.fetches = 1 /\ sw.lookups = 2 /\ sw.result = None

\* a static list that is missing gives an empty list and raises nothing
MissingFileIsEmpty ==
    /\ sw.pc \in {"files_read", "lookup_error", "downloaded", "have_words", "returned"} =>
         /\ "ru" \notin sw.files => sw.stopwords_ru = {}
         /\ "en" \notin sw.files => sw.stopwords_en = {}
    /\ sw.pc = "returned" =>
         /\ sw.result.tag = "set"
         /\ NltkStopwords \subseteq sw.result.v
         /\ sw.files = {} => sw.result.v = NltkStopwords

\* C11: over all the calls of load_stopwords of one process nltk.download is
\* invoked at most once, also when an earlier download did not get the
\* corpus; within one call a missing corpus gives one download and one more
\* lookup, whose failure is the error of that call; a missing static list
\* gives an empty list and raises nothing.
C11_FetchOncePerProcess ==
    /\ download_calls <= 1
    /\ OneFetchOneRetryPerCall
    /\ MissingFileIsEmpty

====
